---- MODULE Spec2Model ----
(***************************************************************************)
(* State machine of the flood game's orchestration core: Game (pause flag,  *)
(* GameState, restart), StageManager (loadStage, flood countdown, outcome), *)
(* EventSystem (trigger collection, ActiveEvent, resolveEvent, the event    *)
(* modal) and Player.performAction.                                         *)
(*                                                                          *)
(* JavaScript is single-threaded: every handler (timer callback, DOM event  *)
(* handler, animation frame) runs to completion, so each handler is one     *)
(* action.  Wall-clock delays (setTimeout, setInterval) are pending flags   *)
(* that may fire at any later step.  Positions are abstracted: which        *)
(* objects are within the interaction radius is an input of each action     *)
(* press.                                                                   *)
(***************************************************************************)
EXTENDS Integers, Sequences, FiniteSets, TLC

\* ------------------------------------------------------------------ bounds
\* The countdown lengths (120/180/240 s) and resource goals (15/25/40) of
\* StageManager.stageConfig are scaled: a stage starts TimerDuration ticks
\* and ResourceGoal resources away from its flood.  No handler reads more of
\* the timer than "<= 30" (a HUD warning) and "<= 0".
TimerDuration == 2
ResourceGoal == 2
\* Resource collection is possible while resources < MaxResources.
MaxResources == 3
\* Largest value Math.round(amount * resourceGain) of one collection.
MaxCollect == 1
\* Failed stages per run that are followed (restarts counter).
MaxRestarts == 1
\* Trigger objects one EventSystem instance may allocate.
MaxObjects == 4
\* Event modals simultaneously in the document.
MaxModals == 2
\* Entries of EventSystem.eventHistory after which no further choice is
\* clicked, and the timer overrun (seconds below 0) after which none is.
MaxHistory == 4
\* Clicks on the choice buttons of one event modal.
MaxClicks == 1
\* Live triggers that can be within the interaction radius at once.
MaxNear == 2
MaxOverrun == 0
\* Event modals in the document at the moment the systems are set up again.
MaxStale == 1
\* Largest amount, in tenths, modifyTrait is called with.
MaxDelta == 25
\* Seconds of frame time that one followed run of frames adds up to.
FrameDelta == 10

\* ---------------------------------------------------------------- constants
Stages == {"primordial", "prehistoric", "ordered"}
NoStage == "none"
NoEvent == "none"
Null == 0

\* StageManager.stageConfig (timerDuration, resourceGoal), scaled as above.
stageConfig ==
  [s \in Stages |-> [timerDuration |-> TimerDuration, resourceGoal |-> ResourceGoal]]

\* EventSystem.loadEvents: the ids of each stage's catalog, in catalog order.
stageEvents ==
  [s \in Stages |->
     CASE s = "primordial"  -> <<"struggling_entity", "glowing_substance">>
       [] s = "prehistoric" -> <<"trapped_creature", "ancient_knowledge">>
       [] s = "ordered"     -> <<"village_dispute", "philosophy_stone">>]

EventIds == UNION {{stageEvents[s][i] : i \in 1..Len(stageEvents[s])} : s \in Stages}

\* Every catalog event has two choices.
Choices == 1..2
\* The three bands of Math.random() in glowing_substance's first choice:
\* 1: > 0.7, 2: in (0.4, 0.7], 3: <= 0.4.
Rnd == 1..3

VARIABLES
  paused,              \* Game.paused
  selection,           \* the archetype selection screen is displayed
  completionScreen,    \* the completion screen is displayed
  playAgainBtn,        \* it has its 'Begin New Evolution' button
  state,               \* Game.state (stage, resources, resourceGoal, timer, ...)
  player,              \* Game.state.player: [exists, willToLive, ...]
  savedHighest,        \* highestResources of localStorage's floodGameProgress
  call,                \* the last direct call of a function keyed by
                       \* archetype or stage, with what it returned
  philosophicalTraits, \* Player.philosophicalTraits of a player whose
                       \* modifyTrait is called directly, in tenths
  floodGameProgress,   \* localStorage's floodGameProgress item as the direct
                       \* calls of saveProgress and the page load leave it
  eventCooldown,       \* EventSystem.eventCooldown, in seconds, of an event
                       \* system whose frames are followed
  frameLoops,          \* the self-rescheduling animate chains of a game
                       \* whose frames are followed
  currentStage,        \* StageManager.currentStage
  currentScene,        \* StageManager.currentScene: the stage whose scene it is
  willToLiveObj,       \* Primordial.willToLiveObj is non-null
  loading,             \* loadStage suspended at its await: [stage, fromStart]
  floodTimerInterval,  \* the setInterval of startFloodTimer is live
  intervals,           \* the countdown intervals that are live, of any
                       \* StageManager instance
  nextLoad,            \* handleStageSuccess's pending setTimeout: the stage
  restartTimer,        \* handleStageFailure's pending setTimeout
  spawnTimers,         \* loadStage's pending trigger-spawn setTimeouts (stages)
  awakenTimer,         \* Primordial.onWillToLiveFound's pending spawn
  activeEvent,         \* EventSystem.activeEvent (event id)
  activeEventTrigger,  \* EventSystem.activeEventTrigger: [object, scene]
  interactiveObjects,  \* EventSystem.interactiveObjects: object indices / Null
  objects,             \* the trigger meshes allocated by this EventSystem
  eventHistory,        \* EventSystem.eventHistory
  resourcesCollected,  \* EventSystem.resourcesCollected
  collectedAtLoad,     \* resourcesCollected when the current scene was
                       \* constructed (history)
  modals,              \* the #event-modal elements, in document order
  near                 \* live triggers within the radius of the paused player

vars == <<paused, selection, completionScreen, playAgainBtn, state, player, savedHighest,
          call, philosophicalTraits, floodGameProgress, eventCooldown,
          frameLoops,
          currentStage, currentScene, willToLiveObj, loading,
          floodTimerInterval, intervals, nextLoad, restartTimer, spawnTimers, awakenTimer,
          activeEvent, activeEventTrigger, interactiveObjects, objects,
          eventHistory, resourcesCollected, collectedAtLoad, modals, near>>

gameVars == <<paused, selection, completionScreen, playAgainBtn, state, player>>
stageVars == <<currentStage, currentScene, willToLiveObj, loading,
               floodTimerInterval, intervals, nextLoad, restartTimer, spawnTimers,
               awakenTimer>>
eventVars == <<activeEvent, activeEventTrigger, interactiveObjects, objects,
               eventHistory, resourcesCollected, collectedAtLoad, modals, near>>
frameVars == <<eventCooldown, frameLoops>>
directVars == <<call, philosophicalTraits, floodGameProgress, eventCooldown,
                frameLoops>>

\* Game.constructor: the initial Game.state.
InitialState ==
  [stage |-> "primordial", resources |-> 0, resourceGoal |-> 0, timer |-> 0,
   restarts |-> 0, highestResources |-> 0, newGame |-> TRUE]

NoTrigger == [object |-> Null, scene |-> NoStage]
NoPlayer == [exists |-> FALSE, willToLive |-> FALSE, resourceGainBonus |-> 100]
NoLoading == [stage |-> NoStage, fromStart |-> FALSE]

Min(a, b) == IF a < b THEN a ELSE b

\* -------------------------------------------------------------- EventSystem
\* A trigger mesh is [hasData, tid, stage, isActive, eventPool, scene]:
\* userData (null when ~hasData) with its eventTriggerId, stage, isActive and
\* eventPool, and the scene graph the mesh is a child of (NoStage: none).
\* Trigger ids are `trigger_${Date.now()}_${index}`: tid is [time, index],
\* where the time of a createInteractiveTriggers call is stood for by the
\* number of meshes allocated before it (calls are milliseconds apart).
NoId == [time |-> 0, index |-> 0]

\* triggerObject.userData = null
ClearUserData(m) ==
  [m EXCEPT !.hasData = FALSE, !.tid = NoId, !.stage = NoStage,
            !.isActive = FALSE, !.eventPool = <<>>]

\* obj && obj.userData && obj.userData.stage === stage
IsStageTrigger(objs, e, stage) ==
  e # Null /\ objs[e].hasData /\ objs[e].stage = stage

\* A createInteractiveObject without its primordial guard.
NeverSuppressed(stage, pl) == FALSE

\* The primordial guard of createInteractiveObject: no trigger before the
\* will-to-live has been found.
Suppressed(stage, pl) ==
  stage = "primordial" /\ pl.exists /\ ~pl.willToLive

\* createInteractiveObject(scene, stage, index, ...): index is 0-based.
\* Returns the collection and the meshes after the call.
CreateInteractiveObject(io, objs, scene, stage, index, pl) ==
  IF Suppressed(stage, pl) \/ Len(stageEvents[stage]) = 0
  THEN [io |-> io, objs |-> objs]
  ELSE LET eventIndex == index % Len(stageEvents[stage])
           mesh == [hasData |-> TRUE,
                    tid |-> [time |-> Len(objs) - index + 1, index |-> index],
                    stage |-> stage,
                    isActive |-> TRUE,
                    eventPool |-> <<stageEvents[stage][eventIndex + 1]>>,
                    scene |-> scene]
       IN [io |-> Append(io, Len(objs) + 1), objs |-> Append(objs, mesh)]

\* Math.min(availableEvents.length, 2)
TriggerCount(stage) == Min(Len(stageEvents[stage]), 2)

RECURSIVE CreateLoop(_, _, _, _, _, _)
\* for (let i = 0; i < count; i++) createInteractiveObject(scene, stage, i, ...)
CreateLoop(acc, scene, stage, i, count, pl) ==
  IF i >= count THEN acc
  ELSE LET r == CreateInteractiveObject(acc.io, acc.objs, scene, stage, i, pl)
       IN CreateLoop(r, scene, stage, i + 1, count, pl)

\* An existing-triggers test that never finds a trigger.
NoTriggersFound(io, objs, stage) == FALSE

\* The existing-triggers test of createInteractiveTriggers.
HasStageTriggers(io, objs, stage) ==
  \E i \in 1..Len(io) : IsStageTrigger(objs, io[i], stage)

\* createInteractiveTriggers(stage), with scene = stageManager.currentScene
\* (NoStage: null) and pl = game.state.player.
CreateInteractiveTriggers(io, objs, stage, scene, pl) ==
  IF HasStageTriggers(io, objs, stage) THEN [io |-> io, objs |-> objs]
  ELSE LET kept == SelectSeq(io, LAMBDA e : ~IsStageTrigger(objs, e, stage))
       IN IF scene = NoStage \/ Len(stageEvents[stage]) = 0
          THEN [io |-> kept, objs |-> objs]
          ELSE CreateLoop([io |-> kept, objs |-> objs], scene, stage, 0,
                          TriggerCount(stage), pl)

\* getNearbyEventTrigger(playerPosition, radius): inRange is the set of
\* meshes nearer than the radius.  The first match in collection order,
\* Null if none.
IsCandidate(objs, e, inRange) ==
  /\ e # Null /\ objs[e].hasData /\ objs[e].isActive
  /\ Len(objs[e].eventPool) > 0
  /\ e \in inRange

GetNearbyEventTrigger(io, objs, inRange) ==
  LET hits == {i \in 1..Len(io) : IsCandidate(objs, io[i], inRange)}
  IN IF hits = {} THEN Null
     ELSE io[CHOOSE i \in hits : \A j \in hits : i <= j]

\* ---------------------------------------------------------------- position
\* Frames of the running loop move the player (Controls.update ->
\* Player.updateMovement); Game.animate skips the update while paused, so the
\* position is frozen from the moment the game pauses.  `near` holds the
\* live triggers within the radius of the frozen position and is empty
\* while the loop runs: the handlers then take the set as an input.
\* The triggers getNearbyEventTrigger can return: entries of the collection
\* with userData, isActive and a non-empty pool.
LiveTriggers(io, objs) ==
  {io[i] : i \in {j \in 1..Len(io) : IsCandidate(objs, io[j], {io[j]})}}

\* createInteractiveObject keeps the meshes of one createInteractiveTriggers
\* call 8 units apart, so two of them are never both within the radius 2.5;
\* meshes of different calls are placed independently.
Placeable(objs, n) ==
  \A a \in n : \A b \in n : a # b => objs[a].tid.time # objs[b].tid.time

\* The sets of live triggers the player can be within the radius of.
InRangeSets(io, objs) ==
  {n \in SUBSET LiveTriggers(io, objs) : Cardinality(n) <= MaxNear /\ Placeable(objs, n)}

\* The positions the player can be at: frozen while paused.
Positions ==
  IF paused THEN {near} ELSE InRangeSets(interactiveObjects, objects)

\* removeEventTrigger(triggerObject, scene): the id is read, the mesh leaves
\* `scene` if it is a child of it, userData is nulled, and then the
\* collection is searched for an entry whose userData carries the id; with
\* `compact` (Math.random() < 0.2) the null entries are filtered out.
RemoveEventTrigger(io, objs, o, scene, compact) ==
  LET triggerID == IF objs[o].hasData THEN objs[o].tid ELSE NoId
      detached == IF objs[o].scene = scene
                  THEN [objs[o] EXCEPT !.scene = NoStage] ELSE objs[o]
      objs1 == [objs EXCEPT ![o] = ClearUserData(detached)]
      found == {i \in 1..Len(io) :
                  io[i] # Null /\ objs1[io[i]].hasData /\ objs1[io[i]].tid = triggerID}
      io1 == IF triggerID # NoId /\ found # {}
             THEN [io EXCEPT ![CHOOSE i \in found : \A j \in found : i <= j] = Null]
             ELSE io
      io2 == IF compact THEN SelectSeq(io1, LAMBDA e : e # Null) ELSE io1
  IN [io |-> io2, objs |-> objs1]

\* The fields a call into the EventSystem reads and writes, as one record:
\* the collection, the meshes, activeEvent, activeEventTrigger, the history,
\* the modals, Game.paused and Game.state; `result` is what the call returned
\* ("true", "false", "done") or "throws".
Sys ==
  [io |-> interactiveObjects, objs |-> objects, activeEvent |-> activeEvent,
   trigger |-> activeEventTrigger, history |-> eventHistory, modals |-> modals,
   paused |-> paused, state |-> state, result |-> "none"]

Commit(r) ==
  /\ interactiveObjects' = r.io /\ objects' = r.objs
  /\ activeEvent' = r.activeEvent /\ activeEventTrigger' = r.trigger
  /\ eventHistory' = r.history /\ modals' = r.modals
  /\ paused' = r.paused /\ state' = r.state

RemoveAt(seq, k) == [i \in 1..(Len(seq) - 1) |-> IF i < k THEN seq[i] ELSE seq[i + 1]]

\* displayEventUI(event): a new #event-modal with the event's choice buttons
\* is appended to the document body.
DisplayEventUI(ms, ev) ==
  Append(ms, [event |-> ev, content |-> "choices", stale |-> FALSE, clicks |-> 0])

\* showOutcomeUI: document.getElementById('event-modal') is the first modal
\* of the document; its content becomes the outcome card with 'Continue'.
ShowOutcomeUI(ms) ==
  IF Len(ms) = 0 THEN ms
  ELSE [ms EXCEPT ![1] = [event |-> NoEvent, content |-> "outcome",
                          stale |-> FALSE, clicks |-> 0]]

\* triggerEventFromObject(triggerObject): o is the mesh, idx the random
\* index into its pool, scene the current scene.
TriggerEventFromObject(sys, o, idx, scene) ==
  IF ~sys.objs[o].hasData THEN [sys EXCEPT !.result = "throws"]
  ELSE IF Len(sys.objs[o].eventPool) = 0
  THEN [sys EXCEPT !.objs[o].isActive = FALSE, !.result = "false"]
  ELSE LET pool == sys.objs[o].eventPool
           selectedEvent == pool[idx]
           rest == RemoveAt(pool, idx)
       IN [sys EXCEPT !.objs[o].eventPool = rest,
                      !.objs[o].isActive = IF Len(rest) = 0 THEN FALSE ELSE @,
                      !.activeEvent = selectedEvent,
                      !.paused = TRUE,
                      !.modals = DisplayEventUI(@, selectedEvent),
                      !.history = Append(@, [id |-> selectedEvent, choice |-> 0]),
                      !.trigger = [object |-> o, scene |-> scene],
                      !.result = "true"]

\* triggerEventFromObject when showTriggerEffect throws (a THREE or scene
\* call): the pool entry is spliced, isActive and activeEvent are set, and
\* the statements from game.pause() on do not run.
TriggerEventThrows(sys, o, idx) ==
  LET rest == RemoveAt(sys.objs[o].eventPool, idx)
  IN [sys EXCEPT !.objs[o].eventPool = rest,
                 !.objs[o].isActive = IF Len(rest) = 0 THEN FALSE ELSE @,
                 !.activeEvent = sys.objs[o].eventPool[idx],
                 !.result = "throws"]

\* ------------------------------------------------------------ event effects
\* choice.effect(game) of catalog event ev, choice c.  rnd is the band of
\* Math.random(); influential is traits.villageInfluence > 1.2.  The
\* gameplay traits carry no compassion entry (Evolution.js; modifyTrait
\* routes 'compassion' to philosophicalTraits), so traits.compassion > 0.5
\* is false.  A statement that dereferences game.state.player throws when
\* the player is null: `threw` is set and st holds what ran before it.
Effect(ev, c, rnd, influential, st, pl) ==
  LET ch(dr, dt) == [st EXCEPT !.resources = @ + dr, !.timer = @ - dt]
      done(s) == [state |-> s, threw |-> FALSE]
      deref(partial, full) ==
        IF pl.exists THEN [state |-> full, threw |-> FALSE]
        ELSE [state |-> partial, threw |-> TRUE]
  IN CASE ev = "struggling_entity" /\ c = 1 -> deref(ch(3, 0), ch(3, 0))
       [] ev = "struggling_entity" /\ c = 2 -> deref(st, st)
       [] ev = "glowing_substance" /\ c = 1 ->
            IF rnd = 1 THEN deref(st, st)
            ELSE IF rnd = 2 THEN done(ch(5, 0)) ELSE done(ch(0, 10))
       [] ev = "glowing_substance" /\ c = 2 -> deref(st, ch(2, 0))
       [] ev = "trapped_creature" /\ c = 1 -> deref(ch(-1, 5), ch(-1 + 2, 5))
       [] ev = "trapped_creature" /\ c = 2 -> deref(st, st)
       [] ev = "ancient_knowledge" /\ c = 1 -> deref(ch(0, 8), ch(0, 8))
       [] ev = "ancient_knowledge" /\ c = 2 -> deref(st, st)
       [] ev = "village_dispute" /\ c = 1 ->
            deref(st, IF influential THEN ch(8, 0) ELSE ch(3, 10))
       [] ev = "village_dispute" /\ c = 2 -> deref(ch(5, 0), ch(5, 0))
       [] ev = "philosophy_stone" /\ c = 1 -> deref(st, ch(0, 15))
       [] ev = "philosophy_stone" /\ c = 2 -> deref(st, ch(3, 0))

\* ------------------------------------------- archetype and stage keys
\* The keys of evolutionTypes.
Types == {"strong", "meek", "allRounder"}

\* Keys handed to the functions that look an archetype or a stage up: the
\* defined ones, one that names no property at all, and one that names a
\* property every object literal inherits from Object.prototype (its value,
\* the function Object, has no enumerable property and no baseTraits).
Inherited == "constructor"
TypeKeys == Types \cup {"hybrid", Inherited}
StageKeys == Stages \cup {"modern", Inherited}

\* An object without properties ({}).
NoTraits == [k \in {} |-> 0]

\* evolutionTypes: the base traits of each archetype, in hundredths.
evolutionTypes ==
  [strong |-> [baseTraits |-> [speed |-> 200, energyCost |-> 150,
                               resourceGain |-> 100, size |-> 120]],
   meek |-> [baseTraits |-> [speed |-> 100, energyCost |-> 80,
                             resourceGain |-> 120, coopBonus |-> 200,
                             size |-> 80]],
   allRounder |-> [baseTraits |-> [speed |-> 150, energyCost |-> 100,
                                   resourceGain |-> 100, adaptability |-> 150,
                                   size |-> 100]]]

\* stageModifiers: the trait factors of each stage, in hundredths.
stageModifiers ==
  [primordial |-> NoTraits,
   prehistoric |-> [strong |-> [speed |-> 120, size |-> 130],
                    meek |-> [resourceGain |-> 150, coopBonus |-> 250],
                    allRounder |-> [adaptability |-> 200, energyCost |-> 90]],
   ordered |-> [strong |-> [resourceGain |-> 130, villageInfluence |-> 120],
                meek |-> [villageInfluence |-> 200, energyCost |-> 70],
                allRounder |-> [speed |-> 180, villageInfluence |-> 150],
                consciousness |-> TRUE]]

\* What a call came to: a returned value, a thrown TypeError, or the false
\* loadStage returns from its catch block.
Returns(v) == [outcome |-> "returns", value |-> v]
Throws == [outcome |-> "throws", value |-> NoTraits]
ReturnsFalse == [outcome |-> "false", value |-> NoTraits]

\* The currentTraits argument of evolveEntity: null by default, or the
\* traits of an entity.
NoCurrentTraits == [given |-> FALSE, traits |-> NoTraits]
CurrentTraits ==
  {NoCurrentTraits} \cup
  {[given |-> TRUE, traits |-> evolutionTypes[t].baseTraits] : t \in Types}

\* evolveEntity(type, stage, currentTraits): currentTraits, or else a copy of
\* evolutionTypes[type].baseTraits (a TypeError when evolutionTypes[type] is
\* undefined); past 'primordial', Object.entries(stageModifiers[stage]) (a
\* TypeError when that is undefined) sets the stage's general traits, and
\* mods[type], if there is one, multiplies the traits the entity has and adds
\* the others.
EvolveEntity(type, stage, currentTraits) ==
  IF ~currentTraits.given /\ type \notin Types \cup {Inherited}
  THEN Throws
  ELSE IF stage # "primordial" /\ stage \notin Stages \cup {Inherited}
  THEN Throws
  ELSE LET base == IF currentTraits.given THEN currentTraits.traits
                   ELSE IF type \in Types
                        THEN evolutionTypes[type].baseTraits
                        ELSE NoTraits
           mods == IF stage \in Stages THEN stageModifiers[stage] ELSE NoTraits
           general == DOMAIN mods \ Types
           staged == [k \in DOMAIN base \cup general |->
                        IF k \in general THEN mods[k] ELSE base[k]]
           typed == IF type \in DOMAIN mods THEN mods[type] ELSE NoTraits
       IN Returns([k \in DOMAIN staged \cup DOMAIN typed |->
                     IF k \notin DOMAIN typed THEN staged[k]
                     ELSE IF k \in DOMAIN staged /\ staged[k] # 0
                          THEN (staged[k] * typed[k]) \div 100
                          ELSE typed[k]])

\* The object the caller passed as currentTraits, after the call: baseTraits
\* is that very object (currentTraits || ...), so the modifiers are written
\* into it and it ends as the value returned; null stays null.
ArgumentAfterEvolve(type, stage, currentTraits) ==
  LET result == EvolveEntity(type, stage, currentTraits)
  IN IF currentTraits.given /\ result.outcome = "returns"
     THEN [given |-> TRUE, traits |-> result.value]
     ELSE currentTraits

\* evolutionTypes after the call: without currentTraits the base traits are
\* copied by the spread before anything is written, so the table is as
\* before.
TableAfterEvolve(type, stage, currentTraits) == evolutionTypes

\* No call made yet.
NoCall ==
  [fn |-> "none", type |-> "none", stage |-> "none", restarts |-> 0,
   currentTraits |-> NoCurrentTraits, result |-> Returns(NoTraits)]

\* ------------------------------------------------------ Player.modifyTrait
\* The philosophical traits and the values the Player constructor gives
\* them, in tenths (0.5, 0.5, 0, 0.5).
PhilosophicalTraits == {"compassion", "curiosity", "consciousness", "cooperation"}
InitialPhilosophicalTraits ==
  [compassion |-> 5, curiosity |-> 5, consciousness |-> 0, cooperation |-> 5]

\* The names modifyTrait is called with: the philosophical traits, a
\* gameplay trait ('speed') and a name no trait object has ('efficiency').
TraitNames == PhilosophicalTraits \cup {"speed", "efficiency"}

\* The upper clamp of a philosophical trait (2), in tenths.
TraitCeiling == 20

\* The amounts modifyTrait is called with, in tenths: 0.3, and an amount in
\* each direction that is larger than the clamped range.
Deltas == {-MaxDelta, 3, MaxDelta}

Max(a, b) == IF a > b THEN a ELSE b

\* A modifyTrait that adds the amount without clamping.
ModifyTraitUnclamped(pt, trait, amount) ==
  IF trait \in DOMAIN pt THEN [pt EXCEPT ![trait] = @ + amount] ELSE pt

\* modifyTrait(trait, amount): the philosophicalTraits after the call.  A
\* philosophical trait is increased and clamped to [0, 2]; any other name
\* leaves them as they are (a gameplay trait is changed in this.traits).
ModifyTrait(pt, trait, amount) ==
  IF trait \in DOMAIN pt
  THEN [pt EXCEPT ![trait] = Max(0, Min(TraitCeiling, @ + amount))]
  ELSE pt

\* --------------------------------------------------- Player._getInteractable
\* The interaction radius of _getInteractable, in tenths of a unit, and the
\* distances at which resources lie.
InteractionRadius == 25
Distances == {10, 20, 30}

\* scene.getNearbyResources(position, radius): the uncollected resources
\* nearer than the radius, closest first (resources are given by their
\* distances).
RECURSIVE SortedByDistance(_)
SortedByDistance(ds) ==
  IF ds = {} THEN <<>>
  ELSE LET d == CHOOSE x \in ds : \A y \in ds : x <= y
       IN <<d>> \o SortedByDistance(ds \ {d})

GetNearbyResources(ds, radius) ==
  SortedByDistance({d \in ds : d < radius})

NoInteractable == [type |-> "none", target |-> 0]

\* _getInteractable: stage is game.state.stage; orb, trigger, environment
\* and village tell whether the scene's will-to-live object, an active event
\* trigger, an environment interaction point and a village are within the
\* radius; ds are the distances of the scene's uncollected resources.
GetInteractable(stage, willToLive, orb, trigger, ds, environment, village) ==
  LET resources == GetNearbyResources(ds, InteractionRadius)
  IN IF stage = "primordial" /\ ~willToLive /\ orb
     THEN [type |-> "willToLive", target |-> 0]
     ELSE IF trigger THEN [type |-> "eventTrigger", target |-> 0]
     ELSE IF Len(resources) > 0 THEN [type |-> "resource", target |-> resources[1]]
     ELSE IF environment THEN [type |-> "environment", target |-> 0]
     ELSE IF stage = "ordered" /\ village THEN [type |-> "village", target |-> 0]
     ELSE NoInteractable

\* ---------------------------------------------------------- saved progress
\* No floodGameProgress item in localStorage.
NoProgress ==
  [present |-> FALSE, stage |-> NoStage, evolutionType |-> "none",
   restarts |-> 0, highestResources |-> 0]

\* ------------------------------------------------------------------- Init
Init ==
  /\ paused = FALSE
  /\ selection = TRUE /\ completionScreen = FALSE /\ playAgainBtn = FALSE
  /\ state = InitialState /\ player = NoPlayer /\ savedHighest = 0
  /\ call = NoCall /\ philosophicalTraits = InitialPhilosophicalTraits
  /\ floodGameProgress = NoProgress
  /\ eventCooldown = 0 /\ frameLoops = 0
  /\ currentStage = NoStage /\ currentScene = NoStage /\ willToLiveObj = FALSE
  /\ loading = NoLoading /\ floodTimerInterval = FALSE /\ intervals = 0
  /\ nextLoad = NoStage /\ restartTimer = FALSE
  /\ spawnTimers = {} /\ awakenTimer = FALSE
  /\ activeEvent = NoEvent /\ activeEventTrigger = NoTrigger
  /\ interactiveObjects = <<>> /\ objects = <<>>
  /\ eventHistory = <<>> /\ resourcesCollected = 0
  /\ collectedAtLoad = 0
  /\ modals = <<>> /\ near = {}

\* --------------------------------------------------------- Game lifecycle
\* Game.setupSystems: a new StageManager and a new EventSystem.  The event
\* modals of the replaced EventSystem stay in the document; their handlers
\* keep the replaced instance (stale).
SetupSystems ==
  /\ currentStage' = NoStage /\ currentScene' = NoStage
  /\ willToLiveObj' = FALSE
  /\ floodTimerInterval' = FALSE
  /\ activeEvent' = NoEvent /\ activeEventTrigger' = NoTrigger
  /\ interactiveObjects' = <<>> /\ objects' = <<>>
  /\ eventHistory' = <<>> /\ resourcesCollected' = 0
  /\ collectedAtLoad' = 0
  /\ modals' = [k \in 1..Len(modals) |-> [modals[k] EXCEPT !.stale = TRUE]]
  /\ near' = {}

\* getRestartBonuses(type, restarts, previousStage): the bonuses object, the
\* factors in hundredths: resourceGain for everyone, one bonus by the switch
\* on the archetype (which has no default case), and the bonuses of a run
\* that had reached the prehistoric or the ordered stage.
GetRestartBonuses(type, restarts, previousStage) ==
  LET typed == CASE type = "strong" -> [speed |-> 100 + 2 * restarts]
                 [] type = "meek" -> [coopBonus |-> 100 + 10 * restarts]
                 [] type = "allRounder" -> [adaptability |-> 100 + 5 * restarts]
                 [] OTHER -> NoTraits
      progress ==
        CASE previousStage = "prehistoric" ->
               [evolutionMemory |-> TRUE, startingResources |-> 5]
          [] previousStage = "ordered" ->
               [evolutionMemory |-> TRUE, startingResources |-> 10,
                floodWarning |-> TRUE]
          [] OTHER -> NoTraits
  IN [resourceGain |-> 100 + 5 * restarts] @@ typed @@ progress

\* A startGame that passes no restart data to the new Player.
NoRestartData(st) == 0

\* The restartData startGame passes to the Player constructor: the restarts
\* of Game.state if there were any, else null (0).
RestartData(st) == IF st.restarts > 0 THEN st.restarts ELSE 0

\* new Player(evolutionType, game, restartData): applyRestartBonuses
\* multiplies traits.resourceGain by the bonus when restartData is given.
\* The bonus is the same for every archetype, and previousStage is
\* Game.state.stage, which is 'primordial' throughout.
NewPlayer(restartData) ==
  [exists |-> TRUE, willToLive |-> FALSE,
   resourceGainBonus |->
     IF restartData # 0
     THEN GetRestartBonuses("strong", restartData, "primordial").resourceGain
     ELSE 100]

\* A clearInterval that leaves the interval running.
IntervalLeftRunning(handleLive, n) == n

\* clearInterval(this.floodTimerInterval): the live intervals after it.
ClearInterval(handleLive, n) == IF handleLive THEN n - 1 ELSE n

\* A click on an archetype card: Game.startGame up to the await inside
\* StageManager.loadStage (new Player, currentStage set, import pending).
SelectType ==
  /\ selection
  /\ selection' = FALSE
  /\ player' = NewPlayer(RestartData(state))
  /\ floodTimerInterval' = FALSE
  /\ intervals' = ClearInterval(floodTimerInterval, intervals)
  /\ currentStage' = state.stage
  /\ loading' = [stage |-> state.stage, fromStart |-> TRUE]
  /\ UNCHANGED <<paused, completionScreen, playAgainBtn, state, savedHighest, directVars, currentScene,
                 willToLiveObj, nextLoad, restartTimer, spawnTimers,
                 awakenTimer, eventVars>>

\* Player.configureForStage(stage): the will-to-live flag it leaves.
ConfigureForStage(stage, st, pl) ==
  IF stage = "primordial"
  THEN [pl EXCEPT !.willToLive = ~st.newGame]
  ELSE [pl EXCEPT !.willToLive = TRUE]

\* loadStage after its await: the scene is constructed, timer and goal set,
\* the player configured, the countdown started and, unless this is the
\* primordial stage before the awakening, the trigger spawn scheduled.
\* When the load was awaited by startGame, startGame's tail runs.
LoadStageCompletes ==
  /\ loading.stage # NoStage
  /\ LET s == loading.stage
         pl == ConfigureForStage(s, state, player)
     IN /\ currentScene' = s
        /\ willToLiveObj' = (s = "primordial" /\ player.exists /\ ~player.willToLive)
        /\ state' = [state EXCEPT !.timer = stageConfig[s].timerDuration,
                                  !.resourceGoal = stageConfig[s].resourceGoal,
                                  !.newGame = IF loading.fromStart THEN FALSE ELSE @]
        /\ player' = pl
        /\ spawnTimers' = IF s # "primordial" \/ (pl.exists /\ pl.willToLive)
                          THEN spawnTimers \cup {s} ELSE spawnTimers
  /\ floodTimerInterval' = TRUE
  /\ intervals' = intervals + 1
  /\ loading' = NoLoading
  /\ collectedAtLoad' = resourcesCollected
  /\ UNCHANGED <<paused, selection, completionScreen, playAgainBtn, savedHighest,
                 currentStage, nextLoad, restartTimer, awakenTimer,
                 activeEvent, activeEventTrigger, interactiveObjects,
                 objects, eventHistory, resourcesCollected, modals, near>>

\* The same step in a game whose frame loops are not followed.
LoadStageComplete ==
  /\ LoadStageCompletes
  /\ UNCHANGED directVars

\* loadStage after its await when the import or the scene constructor
\* throws: the catch block logs and returns false.  currentStage was
\* assigned and the old countdown cleared before the try; currentScene keeps
\* the previous scene.  startGame does not read the result: its tail runs.
LoadStageFails ==
  /\ loading.stage # NoStage
  /\ loading' = NoLoading
  /\ state' = [state EXCEPT !.newGame = IF loading.fromStart THEN FALSE ELSE @]
  /\ UNCHANGED <<paused, selection, completionScreen, playAgainBtn, player, savedHighest, directVars,
                 currentStage, currentScene, willToLiveObj, floodTimerInterval,
                 intervals, nextLoad, restartTimer, spawnTimers, awakenTimer,
                 eventVars>>

\* ------------------------------------------------------- flood countdown
\* A handleFlood whose boundary is exclusive.
FloodSurvivedStrictly(st) == st.resources > st.resourceGoal

\* handleFlood's test: enough resources at the moment the timer runs out.
FloodSurvived(st) == st.resources >= st.resourceGoal

\* A handleStageSuccess that always continues with the second stage.
NextStageAlwaysPrehistoric(stage) == "prehistoric"

\* handleStageSuccess: the stage that follows `stage`.
NextStage(stage) == IF stage = "prehistoric" THEN "ordered" ELSE "prehistoric"

\* The categories getChoicesSummary counts, in the order of its summary
\* object.
Categories == <<"compassion", "curiosity", "cooperation", "efficiency">>

\* The categories whose keywords the text of choice c of event ev includes
\* ('Help' or 'leave it alone', 'Study' or 'decipher', 'cooperate' or
\* 'together', 'Consume' or 'quickly'; String.includes is case-sensitive, so
\* 'Leave it alone' and 'Make a quick sketch and move on' match nothing).
ChoiceCategories(ev, c) ==
  CASE ev = "struggling_entity" /\ c = 1 -> {"efficiency"}
    [] ev = "glowing_substance" /\ c = 2 -> {"curiosity"}
    [] ev = "trapped_creature" /\ c = 1 -> {"compassion"}
    [] ev = "ancient_knowledge" /\ c = 1 -> {"curiosity"}
    [] ev = "village_dispute" /\ c = 1 -> {"compassion", "cooperation"}
    [] OTHER -> {}

\* The loop of getChoicesSummary over the summary's entries from the k-th
\* on: the category kept is replaced by one with a strictly larger count.
RECURSIVE DominantTrait(_, _, _, _)
DominantTrait(counts, k, maxValue, trait) ==
  IF k > Len(Categories) THEN trait
  ELSE IF counts[Categories[k]] > maxValue
       THEN DominantTrait(counts, k + 1, counts[Categories[k]], Categories[k])
       ELSE DominantTrait(counts, k + 1, maxValue, trait)

\* getChoicesSummary over eventHistory.  A record pushed by
\* triggerEventFromObject is the catalog event, which has no `choice`
\* (choice 0 here): event.choice.includes throws a TypeError on it.
GetChoicesSummary(history) ==
  LET counts == [cat \in {Categories[k] : k \in 1..Len(Categories)} |->
                   Cardinality({i \in 1..Len(history) :
                      cat \in ChoiceCategories(history[i].id, history[i].choice)})]
  IN IF \E i \in 1..Len(history) : history[i].choice = 0
     THEN [outcome |-> "throws", counts |-> counts, dominantTrait |-> "none",
           eventCount |-> 0]
     ELSE [outcome |-> "returns", counts |-> counts,
           dominantTrait |-> DominantTrait(counts, 1, 0, "balanced"),
           eventCount |-> Len(history)]

\* achievements (Evolution.js): the keys in the order of Object.entries.
AchievementKeys ==
  <<"speedDemon", "resourceHoarder", "floodSurvivor", "perfectEvolution">>

\* The thresholds of speedDemon (2.5, in hundredths) and resourceHoarder.
SpeedDemonSpeed == 250
HoarderResources == 200

\* The number a trait counts as in perfectEvolution's sum and comparison:
\* consciousness is the boolean true, which is 1 (100 hundredths).
TraitValue(traits, k) == IF k = "consciousness" THEN 100 ELSE traits[k]

RECURSIVE SumTraits(_, _)
SumTraits(traits, keys) ==
  IF keys = {} THEN 0
  ELSE LET k == CHOOSE x \in keys : TRUE
       IN TraitValue(traits, k) + SumTraits(traits, keys \ {k})

\* The requirement of each achievement, on the argument calculateAchievements
\* gives it: the player's traits, state.resources or the state.
Requirement(key, st, traits) ==
  CASE key = "speedDemon" -> traits.speed >= SpeedDemonSpeed
    [] key = "resourceHoarder" -> st.resources >= HoarderResources
    [] key = "floodSurvivor" -> st.restarts = 0
    [] key = "perfectEvolution" ->
         \A k \in DOMAIN traits :
            TraitValue(traits, k) * Cardinality(DOMAIN traits)
              >= SumTraits(traits, DOMAIN traits)

\* Every achievement listed, whatever its requirement says.
AwardAll(st, traits) == AchievementKeys

\* calculateAchievements: the achievements whose requirement holds, in the
\* order of the definitions.
CalculateAchievements(st, traits) ==
  SelectSeq(AchievementKeys, LAMBDA key : Requirement(key, st, traits))

\* saveProgress: the highestResources it writes.
SavedHighest(st) ==
  IF st.resources > st.highestResources THEN st.resources ELSE st.highestResources

\* saveProgress: the item it writes (the player's evolutionType is the
\* state's, which startGame constructs the player from).
SaveProgress(stage, st) ==
  [present |-> TRUE, stage |-> stage, evolutionType |-> st.evolutionType,
   restarts |-> st.restarts, highestResources |-> SavedHighest(st)]

\* localStorage.removeItem('floodGameProgress') in the Game constructor.
RemoveItem(item) == NoProgress

\* loadSavedData: Game.state after it, given the stored item.
LoadSavedData(st, item) ==
  IF item.present
  THEN [f \in DOMAIN st |-> CASE f = "stage" -> "primordial"
                              [] f = "evolutionType" -> item.evolutionType
                              [] f = "restarts" -> item.restarts
                              [] f = "highestResources" -> item.highestResources
                              [] f = "newGame" -> item.evolutionType = "none"
                              [] OTHER -> st[f]]
  ELSE st

\* A countdown callback that never clears its interval.
IntervalNeverCleared(t) == FALSE

\* The countdown callback's test for clearing its interval.
IntervalCleared(t) == t <= 0

\* A callback that leaves the timer where it is.
TimerHeld(timer) == timer

\* state.timer-- in the callback of the countdown.
TimerDecrement(timer) == timer - 1

\* One callback of the setInterval of startFloodTimer: timer--, and at
\* timer <= 0 the interval is cleared and handleFlood resolves the stage:
\* handleStageSuccess (next stage after a delay, or handleGameCompletion in
\* the ordered stage, which pauses and shows the completion screen, built
\* up to the point where getChoicesSummary throws, if it does) or
\* handleStageFailure (restarts++, restart after a delay).
Tick(n) ==
  /\ floodTimerInterval
  /\ spawnTimers = {}
  /\ LET t == TimerDecrement(state.timer)
         st == [state EXCEPT !.timer = t]
     IN IF t > 0
        THEN /\ ~awakenTimer
             /\ n = near
             /\ state' = st
             /\ UNCHANGED <<floodTimerInterval, intervals, nextLoad,
                            restartTimer, paused, completionScreen, playAgainBtn,
                            savedHighest>>
        ELSE /\ floodTimerInterval' = ~IntervalCleared(t)
             /\ intervals' = IF IntervalCleared(t)
                             THEN ClearInterval(floodTimerInterval, intervals)
                             ELSE intervals
             /\ IF FloodSurvived(st)
                THEN /\ state' = st
                     /\ restartTimer' = restartTimer
                     /\ IF currentStage = "ordered"
                        THEN /\ paused' = TRUE
                             /\ completionScreen' = TRUE
                             /\ playAgainBtn' =
                                  (GetChoicesSummary(eventHistory).outcome
                                     = "returns")
                             /\ nextLoad' = nextLoad
                             /\ n \in Positions
                             /\ savedHighest' = savedHighest
                        ELSE /\ nextLoad' = NextStage(currentStage)
                             /\ n = near
                             /\ savedHighest' = SavedHighest(st)
                             /\ UNCHANGED <<paused, completionScreen, playAgainBtn>>
                ELSE /\ st.restarts < MaxRestarts
                     /\ n = near
                     /\ state' = [st EXCEPT !.restarts = @ + 1]
                     /\ restartTimer' = TRUE
                     /\ savedHighest' = SavedHighest(st)
                     /\ UNCHANGED <<nextLoad, paused, completionScreen, playAgainBtn>>
  /\ near' = n
  /\ UNCHANGED <<directVars, selection, player, currentStage, currentScene,
                 willToLiveObj, loading, spawnTimers, awakenTimer, activeEvent,
                 activeEventTrigger, interactiveObjects, objects, eventHistory,
                 resourcesCollected, collectedAtLoad, modals>>

\* The setTimeout of handleStageSuccess fires: loadStage(nextStage) up to
\* its await (the countdown is cleared, currentStage set).
NextLoadFire ==
  /\ nextLoad # NoStage
  /\ Len(objects) + TriggerCount(nextLoad) <= MaxObjects
  /\ floodTimerInterval' = FALSE
  /\ intervals' = ClearInterval(floodTimerInterval, intervals)
  /\ currentStage' = nextLoad
  /\ loading' = [stage |-> nextLoad, fromStart |-> FALSE]
  /\ nextLoad' = NoStage
  /\ UNCHANGED <<gameVars, savedHighest, directVars, currentScene, willToLiveObj,
                 restartTimer, spawnTimers, awakenTimer, eventVars>>

\* The setTimeout of handleStageFailure fires: Game.init(true), which sets
\* up new systems and shows the archetype selection.
RestartFire ==
  /\ restartTimer
  /\ Len(modals) <= MaxStale
  /\ restartTimer' = FALSE
  /\ SetupSystems
  /\ selection' = TRUE
  /\ UNCHANGED <<paused, completionScreen, playAgainBtn, state, player, savedHighest, directVars,
                 loading, intervals, nextLoad, spawnTimers, awakenTimer>>

\* The fields of Game.state besides state.player, as the constructor sets
\* them: those of InitialState, evolutionType (null) and achievements.
FullInitialState ==
  InitialState @@ [evolutionType |-> "none", achievements |-> <<>>]

\* A restartGame that leaves Game.state as it is.
RestartGameKeepingState(newEvolution, st) == st

\* restartGame(newEvolution): the Game.state it leaves (state.player, which
\* it sets to null in both modes, apart).  With newEvolution a new object
\* with the constructor's values and the old highestResources; without, four
\* fields of the old object are assigned.
RestartGame(newEvolution, st) ==
  IF newEvolution
  THEN [f \in DOMAIN st |-> IF f = "highestResources" THEN st.highestResources
                            ELSE FullInitialState[f]]
  ELSE [f \in DOMAIN st |-> CASE f = "resources" -> 0
                              [] f = "stage" -> "primordial"
                              [] f = "timer" -> 0
                              [] f = "newGame" -> FALSE
                              [] OTHER -> st[f]]

\* 'Begin New Evolution' on the completion screen, which has the button if
\* showGameCompletionScreen ran to its end: restartGame(true) resets
\* Game.state (keeping highestResources) and calls init(true).
PlayAgain ==
  /\ completionScreen /\ playAgainBtn
  /\ Len(modals) <= MaxStale
  /\ completionScreen' = FALSE /\ playAgainBtn' = FALSE
  /\ state' = RestartGame(TRUE, state)
  /\ player' = NoPlayer
  /\ SetupSystems
  /\ selection' = TRUE
  /\ UNCHANGED <<paused, savedHighest, directVars, loading, intervals, nextLoad,
                 restartTimer, spawnTimers, awakenTimer>>

\* ------------------------------------------------------------- visibility
\* The visibilitychange handler, run for the tab being hidden and again for
\* it being shown: game.pause(), then game.resume().  While the tab is
\* hidden no input reaches the page and nothing that runs reads Game.paused,
\* so the two runs are taken as one step.
VisibilityCycle ==
  /\ paused' = FALSE
  /\ near' = {}
  /\ UNCHANGED <<selection, completionScreen, playAgainBtn, state, player, savedHighest, directVars,
                 stageVars, activeEvent, activeEventTrigger,
                 interactiveObjects, objects, eventHistory, resourcesCollected, collectedAtLoad,
                 modals>>

\* ----------------------------------------------------------- resolveEvent
\* A resolveEvent that shows the outcome card but leaves activeEvent set.
ResolveEventKeepingActive(sys, ev, c, rnd, influential, compact, pl) ==
  [sys EXCEPT !.history = Append(@, [id |-> ev, choice |-> c]),
              !.modals = ShowOutcomeUI(@), !.result = "done"]

\* resolveEvent(event, choice) of the current EventSystem: the effect, the
\* history record, the outcome card, the removal of the recorded trigger,
\* activeEvent = null.  An effect that throws ends the call there.
ResolveEvent(sys, ev, c, rnd, influential, compact, pl) ==
  LET eff == Effect(ev, c, rnd, influential, sys.state, pl)
  IN IF eff.threw THEN [sys EXCEPT !.state = eff.state, !.result = "throws"]
     ELSE LET s1 == [sys EXCEPT !.state = eff.state,
                                !.history = Append(@, [id |-> ev, choice |-> c]),
                                !.modals = ShowOutcomeUI(@)]
              rm == RemoveEventTrigger(s1.io, s1.objs, s1.trigger.object,
                                       s1.trigger.scene, compact)
              s2 == IF s1.trigger.object # Null /\ s1.trigger.scene # NoStage
                    THEN [s1 EXCEPT !.io = rm.io, !.objs = rm.objs,
                                    !.trigger = NoTrigger]
                    ELSE s1
          IN [s2 EXCEPT !.activeEvent = NoEvent, !.result = "done"]

\* The same handler on a modal whose EventSystem has been replaced: the
\* effect runs against the shared Game.state and the outcome card is shown;
\* everything else it writes belongs to the replaced instance.
ResolveStale(sys, ev, c, rnd, influential, pl) ==
  LET eff == Effect(ev, c, rnd, influential, sys.state, pl)
  IN IF eff.threw THEN [sys EXCEPT !.state = eff.state, !.result = "throws"]
     ELSE [sys EXCEPT !.state = eff.state, !.modals = ShowOutcomeUI(@),
                      !.result = "done"]

\* The draws a resolution makes: Math.random() in the first choice of
\* glowing_substance, traits.villageInfluence in the first choice of
\* village_dispute, Math.random() in removeEventTrigger.  A draw that is
\* not made is given as 1 / FALSE.
DrawsMade(m, c, rnd, influential, compact) ==
  /\ rnd = 1 \/ (m.event = "glowing_substance" /\ c = 1)
  /\ ~influential \/ (m.event = "village_dispute" /\ c = 1 /\ player.exists)
  /\ ~compact \/ (~m.stale /\ activeEventTrigger # NoTrigger)

\* A click on choice button c of the k-th event modal.  Clicks are followed
\* while the countdown has not overrun, and on the selection screen that
\* follows restartGame(true), where the player is null and the timer 0.
ChoiceClick(k, c, rnd, influential, compact) ==
  /\ k \in 1..Len(modals) /\ modals[k].content = "choices"
  /\ DrawsMade(modals[k], c, rnd, influential, compact)
  /\ modals[k].clicks < MaxClicks
  /\ Len(eventHistory) < MaxHistory
  /\ state.resources <= MaxResources
  /\ state.timer > -MaxOverrun \/ ~player.exists
  /\ LET ev == modals[k].event
         clicked == [Sys EXCEPT !.modals[k].clicks = @ + 1]
         r == IF modals[k].stale
              THEN ResolveStale(clicked, ev, c, rnd, influential, player)
              ELSE ResolveEvent(clicked, ev, c, rnd, influential, compact, player)
     IN /\ Commit(r)
  /\ UNCHANGED <<selection, completionScreen, playAgainBtn, player, savedHighest, directVars,
                 stageVars, resourcesCollected, collectedAtLoad, near>>

\* A click on 'Continue' of the k-th modal's outcome card: the modal is
\* removed and game.resume() called.
ContinueClick(k) ==
  /\ k \in 1..Len(modals) /\ modals[k].content = "outcome"
  /\ modals' = RemoveAt(modals, k)
  /\ paused' = FALSE
  /\ near' = {}
  /\ UNCHANGED <<selection, completionScreen, playAgainBtn, state, player, savedHighest, directVars,
                 stageVars, activeEvent, activeEventTrigger,
                 interactiveObjects, objects, eventHistory, resourcesCollected, collectedAtLoad>>

\* ------------------------------------------------------- trigger spawning
\* The setTimeout of loadStage(s) fires: createInteractiveTriggers(s) on the
\* EventSystem and the scene that are current at that moment.
SpawnTimerFire(s) ==
  /\ s \in spawnTimers
  /\ LET r == CreateInteractiveTriggers(interactiveObjects, objects, s,
                                        currentScene, player)
     IN /\ Len(r.objs) <= MaxObjects
        /\ interactiveObjects' = r.io /\ objects' = r.objs
  /\ spawnTimers' = spawnTimers \ {s}
  /\ UNCHANGED <<gameVars, savedHighest, directVars, currentStage, currentScene,
                 willToLiveObj, loading, intervals,
                 floodTimerInterval, nextLoad, restartTimer, awakenTimer,
                 activeEvent, activeEventTrigger, eventHistory,
                 resourcesCollected, collectedAtLoad, modals, near>>

\* The setTimeout of Primordial.onWillToLiveFound fires:
\* createInteractiveTriggers('primordial').
AwakenTimerFire ==
  /\ awakenTimer
  /\ LET r == CreateInteractiveTriggers(interactiveObjects, objects,
                                        "primordial", currentScene, player)
     IN /\ Len(r.objs) <= MaxObjects
        /\ interactiveObjects' = r.io /\ objects' = r.objs
  /\ awakenTimer' = FALSE
  /\ UNCHANGED <<gameVars, savedHighest, directVars, currentStage, currentScene,
                 willToLiveObj, loading, intervals,
                 floodTimerInterval, nextLoad, restartTimer, spawnTimers,
                 activeEvent, activeEventTrigger, eventHistory,
                 resourcesCollected, collectedAtLoad, modals, near>>

\* ----------------------------------------------------------- performAction
\* EventSystem.onResourceCollected: the counter, and on the third collection
\* createInteractiveTriggers(game.state.stage) unless the collection holds a
\* trigger of that stage.
OnResourceCollected(io, objs, collected, st, scene, pl) ==
  IF collected + 1 = 3 /\ ~HasStageTriggers(io, objs, st.stage)
  THEN CreateInteractiveTriggers(io, objs, st.stage, scene, pl)
  ELSE [io |-> io, objs |-> objs]

\* Player.performAction with the scene ready.  nearWill: the will-to-live
\* orb is within the radius; nearRes: an uncollected resource is; amount:
\* Math.round(resource value * traits.resourceGain).  _getInteractable
\* prefers the orb (primordial, before the awakening), then an event
\* trigger, then a resource; the environment and village interactions leave
\* the variables of this model alone.
PerformAction(nearWill, nearRes, amount, inRange) ==
  /\ player.exists /\ currentScene # NoStage
  /\ nearWill => (currentScene = "primordial" /\ willToLiveObj)
  /\ inRange \in Positions
  /\ LET target == GetNearbyEventTrigger(interactiveObjects, objects, inRange)
     IN IF /\ state.stage = "primordial" /\ ~player.willToLive
           /\ currentScene = "primordial" /\ willToLiveObj /\ nearWill
        THEN /\ player' = [player EXCEPT !.willToLive = TRUE]
             /\ willToLiveObj' = FALSE
             /\ awakenTimer' = TRUE
             /\ UNCHANGED <<paused, state, eventVars>>
        ELSE IF target # Null
        THEN /\ Len(modals) < MaxModals /\ Len(eventHistory) < MaxHistory
             /\ \E idx \in 1..Len(objects[target].eventPool) :
                  LET r == TriggerEventFromObject(Sys, target, idx, currentScene)
                  IN /\ Commit(r)
             /\ near' = inRange \ {target}
             /\ UNCHANGED <<player, willToLiveObj, awakenTimer, resourcesCollected, collectedAtLoad>>
        ELSE IF nearRes
        THEN /\ state.resources < MaxResources
             /\ LET r == OnResourceCollected(interactiveObjects, objects,
                           resourcesCollected,
                           [state EXCEPT !.resources = @ + amount],
                           currentScene, player)
                IN /\ Len(r.objs) <= MaxObjects
                   /\ interactiveObjects' = r.io /\ objects' = r.objs
             /\ state' = [state EXCEPT !.resources = @ + amount]
             /\ resourcesCollected' = resourcesCollected + 1
             /\ collectedAtLoad' = collectedAtLoad
             /\ UNCHANGED <<paused, player, willToLiveObj, awakenTimer,
                            activeEvent, activeEventTrigger, eventHistory,
                            modals, near>>
        ELSE UNCHANGED <<paused, state, player, willToLiveObj, awakenTimer,
                            eventVars>>
  /\ UNCHANGED <<selection, completionScreen, playAgainBtn, savedHighest, directVars, currentStage,
                 currentScene, loading, floodTimerInterval, intervals,
                 nextLoad, restartTimer, spawnTimers>>

\* keydown of Space or Enter (main.js): performAction is called directly,
\* whether or not the game is paused.
KeyAction(nearWill, nearRes, amount, inRange) ==
  /\ PerformAction(nearWill, nearRes, amount, inRange)

\* Controls.update in a frame of the running loop, with the action button
\* pressed and not yet handled: performAction.
FrameAction(nearWill, nearRes, amount, inRange) ==
  /\ ~paused
  /\ PerformAction(nearWill, nearRes, amount, inRange)

\* performAction on an event trigger whose showTriggerEffect throws; the
\* error is caught by the caller (the keydown handler or Controls.update).
ActionThrows(inRange) ==
  /\ player.exists /\ currentScene # NoStage
  /\ inRange \in Positions
  /\ ~(state.stage = "primordial" /\ ~player.willToLive
         /\ currentScene = "primordial" /\ willToLiveObj)
  /\ LET target == GetNearbyEventTrigger(interactiveObjects, objects, inRange)
     IN /\ target # Null
        /\ \E idx \in 1..Len(objects[target].eventPool) :
             Commit(TriggerEventThrows(Sys, target, idx))
        /\ near' = IF paused THEN inRange \ {target} ELSE {}
  /\ UNCHANGED <<selection, completionScreen, playAgainBtn, player, savedHighest, directVars, stageVars,
                 resourcesCollected, collectedAtLoad>>

\* ------------------------------------------------------------------- Next
Next ==
  \/ SelectType
  \/ LoadStageComplete
  \/ \E n \in Positions : Tick(n)
  \/ NextLoadFire
  \/ RestartFire
  \/ PlayAgain
  \/ VisibilityCycle
  \/ \E s \in Stages : SpawnTimerFire(s)
  \/ AwakenTimerFire
  \/ \E n \in Positions, w \in BOOLEAN, r \in BOOLEAN, a \in 1..MaxCollect :
        KeyAction(w, r, a, n)
  \/ \E n \in Positions, w \in BOOLEAN, r \in BOOLEAN, a \in 1..MaxCollect :
        FrameAction(w, r, a, n)
  \/ \E k \in DOMAIN modals, c \in Choices, rnd \in Rnd,
        influential \in BOOLEAN, compact \in BOOLEAN :
          ChoiceClick(k, c, rnd, influential, compact)
  \/ \E k \in DOMAIN modals : ContinueClick(k)

Spec == Init /\ [][Next]_vars

\* One evolution, from the archetype selection to the completion screen:
\* every handler but the click on 'Begin New Evolution'.
NextLive ==
  \/ SelectType
  \/ LoadStageComplete
  \/ \E n \in Positions : Tick(n)
  \/ NextLoadFire
  \/ RestartFire
  \/ VisibilityCycle
  \/ \E s \in Stages : SpawnTimerFire(s)
  \/ AwakenTimerFire
  \/ \E n \in Positions, w \in BOOLEAN, r \in BOOLEAN, a \in 1..MaxCollect :
        KeyAction(w, r, a, n)
  \/ \E n \in Positions, w \in BOOLEAN, r \in BOOLEAN, a \in 1..MaxCollect :
        FrameAction(w, r, a, n)
  \/ \E k \in DOMAIN modals, c \in Choices, rnd \in Rnd,
        influential \in BOOLEAN, compact \in BOOLEAN :
          ChoiceClick(k, c, rnd, influential, compact)
  \/ \E k \in DOMAIN modals : ContinueClick(k)

\* The evolution with its timers firing: a setInterval callback is run every
\* second for as long as the interval is not cleared, and a setTimeout
\* callback is run once its delay has passed.
SpecLive ==
  /\ Init /\ [][NextLive]_vars
  /\ WF_vars(\E n \in Positions : Tick(n))
  /\ WF_vars(\E s \in Stages : SpawnTimerFire(s))
  /\ WF_vars(AwakenTimerFire)

\* One run of the game (one StageManager and EventSystem, the tab visible
\* throughout) in which the scene construction of loadStage and the
\* showTriggerEffect of a firing trigger may throw.
NextFault ==
  \/ SelectType
  \/ LoadStageComplete
  \/ LoadStageFails
  \/ \E n \in Positions : Tick(n)
  \/ NextLoadFire
  \/ \E s \in Stages : SpawnTimerFire(s)
  \/ AwakenTimerFire
  \/ \E n \in Positions, w \in BOOLEAN, r \in BOOLEAN, a \in 1..MaxCollect :
        KeyAction(w, r, a, n)
  \/ \E n \in Positions, w \in BOOLEAN, r \in BOOLEAN, a \in 1..MaxCollect :
        FrameAction(w, r, a, n)
  \/ \E n \in Positions : ActionThrows(n)
  \/ \E k \in DOMAIN modals, c \in Choices, rnd \in Rnd,
        influential \in BOOLEAN, compact \in BOOLEAN :
          ChoiceClick(k, c, rnd, influential, compact)
  \/ \E k \in DOMAIN modals : ContinueClick(k)

SpecFault == Init /\ [][NextFault]_vars

\* evolveEntity called directly, with any of the keys.
CallEvolveEntity(type, stage, currentTraits) ==
  /\ call' = [fn |-> "evolveEntity", type |-> type, stage |-> stage,
              restarts |-> 0, currentTraits |-> currentTraits,
              result |-> EvolveEntity(type, stage, currentTraits),
              argument |-> ArgumentAfterEvolve(type, stage, currentTraits),
              table |-> TableAfterEvolve(type, stage, currentTraits)]
  /\ UNCHANGED <<gameVars, savedHighest, philosophicalTraits, floodGameProgress, frameVars,
                 stageVars,
                 eventVars>>

\* getRestartBonuses called directly, with any of the keys.
CallGetRestartBonuses(type, restarts, previousStage) ==
  /\ call' = [fn |-> "getRestartBonuses", type |-> type,
              stage |-> previousStage, restarts |-> restarts,
              currentTraits |-> NoCurrentTraits,
              result |-> Returns(GetRestartBonuses(type, restarts,
                                                   previousStage))]
  /\ UNCHANGED <<gameVars, savedHighest, philosophicalTraits, floodGameProgress, frameVars,
                 stageVars,
                 eventVars>>

\* loadStage(stageName) with a key that is no stage: the interval is cleared,
\* currentStage is assigned, stageConfig[stageName] gives no configuration,
\* the import of the scene module is rejected, and the catch block logs the
\* error and returns false.
CallLoadStage(stageName) ==
  /\ stageName \notin Stages
  /\ loading.stage = NoStage
  /\ currentStage' = stageName
  /\ floodTimerInterval' = FALSE
  /\ intervals' = ClearInterval(floodTimerInterval, intervals)
  /\ call' = [fn |-> "loadStage", type |-> "none", stage |-> stageName,
              restarts |-> 0, currentTraits |-> NoCurrentTraits,
              result |-> ReturnsFalse]
  /\ UNCHANGED <<gameVars, savedHighest, philosophicalTraits,
                 floodGameProgress, frameVars, currentScene,
                 willToLiveObj, loading, nextLoad, restartTimer, spawnTimers,
                 awakenTimer, eventVars>>

\* The functions keyed by archetype or stage, called on a constructed game
\* with every combination of keys.
NextKeys ==
  \/ \E type \in TypeKeys, stage \in StageKeys, traits \in CurrentTraits :
        CallEvolveEntity(type, stage, traits)
  \/ \E type \in TypeKeys, restarts \in 0..MaxRestarts, stage \in StageKeys :
        CallGetRestartBonuses(type, restarts, stage)
  \/ \E stageName \in StageKeys : CallLoadStage(stageName)

SpecKeys == Init /\ [][NextKeys]_vars

\* modifyTrait called directly on a player.
CallModifyTrait(trait, amount) ==
  /\ philosophicalTraits' = ModifyTrait(philosophicalTraits, trait, amount)
  /\ UNCHANGED <<gameVars, savedHighest, call, floodGameProgress, frameVars, stageVars,
                 eventVars>>

\* Any sequence of modifyTrait calls on a newly constructed player.
NextTraits == \E trait \in TraitNames, amount \in Deltas :
                 CallModifyTrait(trait, amount)

SpecTraits == Init /\ [][NextTraits]_vars

\* The values of Game.state (all fields but player) of a game in play.
GameStates ==
  [stage : {"primordial"}, resources : 0..MaxResources,
   resourceGoal : {0, ResourceGoal}, timer : 0..TimerDuration,
   restarts : 0..MaxRestarts, highestResources : 0..MaxResources,
   newGame : BOOLEAN, evolutionType : Types \cup {"none"},
   achievements : {<<>>, <<"floodSurvivor">>}]

\* A game with any Game.state whose stage has been loaded and resolved.
InitRestart ==
  /\ paused \in BOOLEAN
  /\ selection = FALSE /\ completionScreen = FALSE /\ playAgainBtn = FALSE
  /\ state \in GameStates
  /\ player \in {NoPlayer, NewPlayer(0)}
  /\ savedHighest = 0
  /\ call = NoCall /\ philosophicalTraits = InitialPhilosophicalTraits
  /\ floodGameProgress = NoProgress
  /\ eventCooldown = 0 /\ frameLoops = 0
  /\ currentStage = "primordial" /\ currentScene = "primordial"
  /\ willToLiveObj = FALSE
  /\ loading = NoLoading /\ floodTimerInterval = FALSE /\ intervals = 0
  /\ nextLoad = NoStage /\ restartTimer = FALSE
  /\ spawnTimers = {} /\ awakenTimer = FALSE
  /\ activeEvent = NoEvent /\ activeEventTrigger = NoTrigger
  /\ interactiveObjects = <<>> /\ objects = <<>>
  /\ eventHistory = <<>> /\ resourcesCollected = 0
  /\ collectedAtLoad = 0
  /\ modals = <<>> /\ near = {}

\* restartGame(newEvolution) called directly: Game.state is reset, then
\* init(true) sets up new systems and shows the archetype selection.
CallRestartGame(newEvolution) ==
  /\ state' = RestartGame(newEvolution, state)
  /\ player' = NoPlayer
  /\ SetupSystems
  /\ selection' = TRUE
  /\ UNCHANGED <<paused, completionScreen, playAgainBtn, savedHighest, directVars, loading,
                 intervals, nextLoad, restartTimer, spawnTimers, awakenTimer>>

NextRestart == \E newEvolution \in BOOLEAN : CallRestartGame(newEvolution)

SpecRestart == InitRestart /\ [][NextRestart]_vars

\* _getInteractable called on the player of a game whose scene is that of
\* stage `scene`: only the primordial scene has a will-to-live object, only
\* the ordered scene has villages, and a player past the primordial scene
\* has the will to live (configureForStage).
CallGetInteractable(scene, willToLive, orb, trigger, ds, environment, village) ==
  /\ orb => scene = "primordial"
  /\ village => scene = "ordered"
  /\ scene # "primordial" => willToLive
  /\ call' = [fn |-> "_getInteractable", scene |-> scene,
              willToLive |-> willToLive, orb |-> orb, trigger |-> trigger,
              resources |-> ds, environment |-> environment,
              village |-> village,
              result |-> GetInteractable(state.stage, willToLive, orb, trigger,
                                         ds, environment, village)]
  /\ UNCHANGED <<gameVars, savedHighest, philosophicalTraits, floodGameProgress, frameVars,
                 stageVars, eventVars>>

NextInteract ==
  \E scene \in Stages, willToLive \in BOOLEAN, orb \in BOOLEAN,
     trigger \in BOOLEAN, ds \in SUBSET Distances, environment \in BOOLEAN,
     village \in BOOLEAN :
       CallGetInteractable(scene, willToLive, orb, trigger, ds, environment,
                           village)

SpecInteract == Init /\ [][NextInteract]_vars

\* The states and traits calculateAchievements is called on: resources and
\* speed on both sides of the thresholds, with and without restarts.
AchievementResources == {0, HoarderResources - 1, HoarderResources,
                         HoarderResources + 1}
AchievementSpeeds == {100, 240, SpeedDemonSpeed - 1, SpeedDemonSpeed, 270}

\* calculateAchievements called directly at the end of the ordered stage.
CallCalculateAchievements(type, speed, resources, restarts) ==
  LET st == [FullInitialState EXCEPT !.resources = resources,
                                     !.restarts = restarts,
                                     !.evolutionType = type]
      traits == [EvolveEntity(type, "ordered", NoCurrentTraits).value
                   EXCEPT !.speed = speed]
  IN /\ call' = [fn |-> "calculateAchievements", state |-> st,
                 traits |-> traits,
                 result |-> CalculateAchievements(st, traits)]
     /\ UNCHANGED <<gameVars, savedHighest, philosophicalTraits,
                    floodGameProgress, frameVars, stageVars, eventVars>>

NextAchievements ==
  \E type \in Types, speed \in AchievementSpeeds,
     resources \in AchievementResources, restarts \in 0..MaxRestarts :
       CallCalculateAchievements(type, speed, resources, restarts)

SpecAchievements == Init /\ [][NextAchievements]_vars

\* ------------------------------------------------- frames and the cooldown
\* The cooldowns triggerEventFromObject and resolveEvent set (20000 and
\* 30000 ms), in seconds.
FiredCooldown == 20
ResolvedCooldown == 30

\* EventSystem.update(deltaTime): nothing with an event active; the cooldown
\* is counted down while it is positive; after that
\* updateInteractiveObjects, which skips the null entries of the collection
\* and reads obj.userData.baseY of the others (a TypeError when userData
\* has been nulled).
UpdateEvents(active, cooldown, io, objs, deltaTime) ==
  IF active # NoEvent
  THEN [cooldown |-> cooldown, outcome |-> "returns"]
  ELSE IF cooldown > 0
  THEN [cooldown |-> cooldown - deltaTime, outcome |-> "returns"]
  ELSE IF \E i \in 1..Len(io) : io[i] # Null /\ ~objs[io[i]].hasData
  THEN [cooldown |-> cooldown, outcome |-> "throws"]
  ELSE [cooldown |-> cooldown, outcome |-> "returns"]

\* A game in play in the primordial stage, after the awakening and the
\* creation of the stage's triggers, its frame loop running.
InitFrame ==
  LET pl == [NewPlayer(0) EXCEPT !.willToLive = TRUE]
      r == CreateInteractiveTriggers(<<>>, <<>>, "primordial", "primordial", pl)
  IN /\ paused = FALSE
     /\ selection = FALSE /\ completionScreen = FALSE /\ playAgainBtn = FALSE
     /\ state = [InitialState EXCEPT !.timer = TimerDuration,
                                     !.resourceGoal = ResourceGoal,
                                     !.newGame = FALSE]
     /\ player = pl /\ savedHighest = 0
     /\ call = NoCall /\ philosophicalTraits = InitialPhilosophicalTraits
     /\ floodGameProgress = NoProgress
     /\ eventCooldown = 0 /\ frameLoops = 1
     /\ currentStage = "primordial" /\ currentScene = "primordial"
     /\ willToLiveObj = FALSE
     /\ loading = NoLoading /\ floodTimerInterval = TRUE /\ intervals = 1
     /\ nextLoad = NoStage /\ restartTimer = FALSE
     /\ spawnTimers = {} /\ awakenTimer = FALSE
     /\ activeEvent = NoEvent /\ activeEventTrigger = NoTrigger
     /\ interactiveObjects = r.io /\ objects = r.objs
     /\ eventHistory = <<>> /\ resourcesCollected = 0
     /\ collectedAtLoad = 0
     /\ modals = <<>> /\ near = {}

\* performAction next to an event trigger: triggerEventFromObject, with the
\* cooldown it sets when it fires an event.
ActionOnTrigger(inRange) ==
  /\ player.exists /\ currentScene # NoStage
  /\ inRange \in Positions
  /\ Len(modals) < MaxModals /\ Len(eventHistory) < MaxHistory
  /\ LET target == GetNearbyEventTrigger(interactiveObjects, objects, inRange)
     IN /\ target # Null
        /\ \E idx \in 1..Len(objects[target].eventPool) :
             LET r == TriggerEventFromObject(Sys, target, idx, currentScene)
             IN /\ Commit(r)
                /\ eventCooldown' = IF r.result = "true" THEN FiredCooldown
                                    ELSE eventCooldown
        /\ near' = inRange \ {target}
  /\ UNCHANGED <<selection, completionScreen, playAgainBtn, player,
                 savedHighest, call, philosophicalTraits, floodGameProgress,
                 frameLoops, stageVars, resourcesCollected, collectedAtLoad>>

\* A click on choice button c of the k-th event modal: resolveEvent, with
\* the cooldown it sets.
ChoiceResolves(k, c, rnd, influential, compact) ==
  /\ k \in 1..Len(modals) /\ modals[k].content = "choices"
  /\ DrawsMade(modals[k], c, rnd, influential, compact)
  /\ modals[k].clicks < MaxClicks
  /\ Len(eventHistory) < MaxHistory
  /\ LET clicked == [Sys EXCEPT !.modals[k].clicks = @ + 1]
         r == ResolveEvent(clicked, modals[k].event, c, rnd, influential,
                           compact, player)
     IN /\ Commit(r)
        /\ eventCooldown' = IF r.result = "done" THEN ResolvedCooldown
                            ELSE eventCooldown
  /\ UNCHANGED <<selection, completionScreen, playAgainBtn, player,
                 savedHighest, call, philosophicalTraits, floodGameProgress,
                 frameLoops, stageVars, resourcesCollected, collectedAtLoad,
                 near>>

\* The frames of deltaTime seconds in all: animate returns at once while
\* the game is paused; else Game.update runs EventSystem.update, then the
\* updates of Player, camera and HUD, and the frame is rendered, unless
\* EventSystem.update throws.
AnimateFrame(deltaTime) ==
  /\ frameLoops > 0 /\ ~paused
  /\ LET u == UpdateEvents(activeEvent, eventCooldown, interactiveObjects,
                           objects, deltaTime)
     IN /\ eventCooldown' = u.cooldown
        /\ call' = [fn |-> "animate", deltaTime |-> deltaTime,
                    outcome |-> u.outcome]
  /\ UNCHANGED <<gameVars, savedHighest, philosophicalTraits,
                 floodGameProgress, frameLoops, stageVars, eventVars>>

\* The event engine of a game in play: action presses on triggers, choice
\* and Continue clicks, and frames.
NextFrame ==
  \/ \E inRange \in Positions : ActionOnTrigger(inRange)
  \/ \E k \in DOMAIN modals, c \in Choices, rnd \in Rnd,
        influential \in BOOLEAN, compact \in BOOLEAN :
          ChoiceResolves(k, c, rnd, influential, compact)
  \/ \E k \in DOMAIN modals : ContinueClick(k)
  \/ AnimateFrame(FrameDelta)

SpecFrame == InitFrame /\ [][NextFrame]_vars

\* ------------------------------------------------------------ frame loops
\* Frame loops per game that are followed.
MaxLoops == 3

\* loadStage after its await, with the tail of startGame when startGame
\* awaited it: animate() starts a chain that reschedules itself with
\* requestAnimationFrame for as long as Game.disposed is not set, and
\* nothing sets it.
StartGameTail ==
  /\ frameLoops < MaxLoops
  /\ LoadStageCompletes
  /\ frameLoops' = IF loading.fromStart THEN frameLoops + 1 ELSE frameLoops
  /\ UNCHANGED <<call, philosophicalTraits, floodGameProgress, eventCooldown>>

\* One display refresh: the callback of every chain runs; each returns at
\* once while the game is paused and runs Game.update otherwise.
DisplayRefresh ==
  /\ call' = [fn |-> "refresh", updates |-> IF paused THEN 0 ELSE frameLoops]
  /\ UNCHANGED <<gameVars, savedHighest, philosophicalTraits,
                 floodGameProgress, frameVars, stageVars, eventVars>>

\* Runs of the game with their failures and restarts, and the display
\* refreshes.
NextLoops ==
  \/ SelectType
  \/ StartGameTail
  \/ \E n \in Positions : Tick(n)
  \/ NextLoadFire
  \/ RestartFire
  \/ \E s \in Stages : SpawnTimerFire(s)
  \/ AwakenTimerFire
  \/ \E n \in Positions, w \in BOOLEAN, r \in BOOLEAN, a \in 1..MaxCollect :
        KeyAction(w, r, a, n)
  \/ DisplayRefresh

SpecLoops == Init /\ [][NextLoops]_vars

\* saveProgress called directly on a game in play.
CallSaveProgress ==
  /\ player.exists
  /\ floodGameProgress' = SaveProgress(currentStage, state)
  /\ UNCHANGED <<gameVars, savedHighest, call, philosophicalTraits, frameVars, stageVars,
                 eventVars>>

\* A page load (main.js): new Game, whose constructor sets the initial state
\* and removes the stored item, then init(): loadSavedData, setupSystems,
\* and the archetype selection for a new game or else startGame.
Startup ==
  LET item == RemoveItem(floodGameProgress)
      loaded == LoadSavedData(FullInitialState, item)
  IN /\ floodGameProgress' = item
     /\ state' = loaded
     /\ paused' = FALSE /\ completionScreen' = FALSE /\ playAgainBtn' = FALSE
     /\ selection' = loaded.newGame
     /\ player' = IF loaded.newGame THEN NoPlayer
                  ELSE NewPlayer(RestartData(loaded))
     /\ currentStage' = IF loaded.newGame THEN NoStage ELSE loaded.stage
     /\ loading' = IF loaded.newGame THEN NoLoading
                   ELSE [stage |-> loaded.stage, fromStart |-> TRUE]
     /\ currentScene' = NoStage /\ willToLiveObj' = FALSE
     /\ floodTimerInterval' = FALSE /\ intervals' = 0
     /\ nextLoad' = NoStage /\ restartTimer' = FALSE
     /\ spawnTimers' = {} /\ awakenTimer' = FALSE
     /\ activeEvent' = NoEvent /\ activeEventTrigger' = NoTrigger
     /\ interactiveObjects' = <<>> /\ objects' = <<>>
     /\ eventHistory' = <<>> /\ resourcesCollected' = 0
     /\ collectedAtLoad' = 0
     /\ modals' = <<>> /\ near' = {}
     /\ UNCHANGED <<savedHighest, call, philosophicalTraits, frameVars>>

\* Saves and page loads of a game in play.
NextStartup == CallSaveProgress \/ Startup

SpecStartup == InitRestart /\ [][NextStartup]_vars

\* ------------------------------------------------------------------ claims
\* C1: in every reachable state the game is paused whenever ActiveEvent is
\* non-null.
C1_PausedWhileEventActive == activeEvent # NoEvent => paused

\* C2: two events are never pending a choice at the same time: at most one
\* modal of the current EventSystem offers choice buttons.
C2_OneEventPending ==
  Cardinality({k \in DOMAIN modals :
                 modals[k].content = "choices" /\ ~modals[k].stale}) <= 1

C4_DepletedTriggerReturnsFalse ==
  \A o \in 1..Len(objects) :
    Len(objects[o].eventPool) = 0 =>
      LET r == TriggerEventFromObject(Sys, o, 1, currentScene)
      IN /\ ~objects[o].isActive
         /\ r.result = "false"
         /\ r.state = state /\ r.paused = paused
         /\ r.activeEvent = activeEvent /\ r.history = eventHistory

\* C5: createInteractiveTriggers(stage) called twice in a row leaves as many
\* triggers of the stage, in the collection and in the scene, as one call.
C5_CreateTriggersIdempotent ==
  \A s \in Stages :
    LET once == CreateInteractiveTriggers(interactiveObjects, objects, s,
                                          currentScene, player)
        twice == CreateInteractiveTriggers(once.io, once.objs, s,
                                           currentScene, player)
        count(r) == Cardinality({i \in 1..Len(r.io) :
                                   /\ r.io[i] # Null
                                   /\ r.objs[r.io[i]].hasData
                                   /\ r.objs[r.io[i]].stage = s})
    IN count(twice) = count(once) /\ Len(twice.objs) = Len(once.objs)

\* The triggers of one stage have been created in the current scene, where
\* another call for that stage is possible, and a call for another stage
\* would create that stage's triggers.
C5_Witness ==
  /\ \E s \in Stages :
       /\ HasStageTriggers(interactiveObjects, objects, s)
       /\ currentScene # NoStage /\ ~Suppressed(s, player)
  /\ \E s \in Stages :
       LET once == CreateInteractiveTriggers(interactiveObjects, objects, s,
                                             currentScene, player)
       IN Len(once.objs) = Len(objects) + TriggerCount(s)

\* C6: over one attempt of a stage at most min(availableEventCount, 2)
\* triggers are created for it (the round-robin assignment then gives each
\* catalog event to at most one of them).  The meshes of an EventSystem
\* whose stage is still the primordial one were all created for that stage
\* in this attempt.
C6_AtMostTwoTriggersPerAttempt ==
  currentStage = "primordial" => Len(objects) <= TriggerCount("primordial")

\* C7: a trigger whose event has been resolved (its userData cleared by
\* removeEventTrigger) is in no scene and no entry of the collection.
C7_ResolvedTriggerRemoved ==
  \A o \in 1..Len(objects) :
    ~objects[o].hasData =>
      /\ objects[o].scene = NoStage
      /\ \A i \in 1..Len(interactiveObjects) : interactiveObjects[i] # o

\* C8: once a stage is loaded, the collection holds no trigger owned by
\* another stage and getNearbyEventTrigger returns none.
C8_NoOrphanedTriggers ==
  (currentScene = currentStage /\ currentStage # NoStage) =>
    /\ \A i \in 1..Len(interactiveObjects) :
         LET e == interactiveObjects[i]
         IN (e # Null /\ objects[e].hasData) => objects[e].stage = currentStage
    /\ \A n \in InRangeSets(interactiveObjects, objects) :
         LET t == GetNearbyEventTrigger(interactiveObjects, objects, n)
         IN t # Null => objects[t].stage = currentStage

\* C9: in the primordial stage, while the player's willToLive is false, the
\* trigger collection is empty, and a createInteractiveTriggers('primordial')
\* called then leaves it empty.
C9_NoTriggerBeforeAwakening ==
  (currentStage = "primordial" /\ ~player.willToLive) =>
    /\ Len(interactiveObjects) = 0
    /\ Len(CreateInteractiveTriggers(interactiveObjects, objects, "primordial",
                                     currentScene, player).io) = 0

\* The third collection has asked for triggers before the awakening.
C9_Witness ==
  /\ currentStage = "primordial" /\ currentScene = "primordial"
  /\ player.exists /\ ~player.willToLive
  /\ resourcesCollected >= 3

\* C10: the countdown callback that brings the timer to <= 0 resolves the
\* stage as a success exactly if resources >= resourceGoal, as a failure
\* otherwise.
C10_FloodOutcome ==
  [][(/\ floodTimerInterval /\ ~floodTimerInterval'
      /\ state'.timer = state.timer - 1 /\ state'.timer <= 0)
       => /\ (nextLoad' # nextLoad \/ (completionScreen' /\ ~completionScreen))
               <=> state.resources >= state.resourceGoal
          /\ (restartTimer' /\ state'.restarts = state.restarts + 1)
               <=> state.resources < state.resourceGoal]_vars

\* The flood met with resources exactly at the goal: the next stage is
\* scheduled.
C10_Witness ==
  /\ nextLoad # NoStage /\ ~floodTimerInterval
  /\ state.timer <= 0 /\ state.resources = state.resourceGoal

\* C11: every change of restarts is an increment by exactly 1 made by the
\* countdown callback that resolves a stage as failed (or the reset to 0 of
\* a new evolution), every failure makes it, and the player created by the
\* startGame that follows has its bonus computed from the restarts then in
\* Game.state.
C11_RestartsByOne ==
  [][/\ (restartTimer' /\ ~restartTimer) => state'.restarts = state.restarts + 1
     /\ state'.restarts # state.restarts =>
          \/ /\ state'.restarts = state.restarts + 1
             /\ restartTimer' /\ ~restartTimer
             /\ floodTimerInterval /\ ~floodTimerInterval'
          \/ completionScreen /\ ~completionScreen' /\ state'.restarts = 0
     /\ (selection /\ ~selection') =>
          /\ player'.exists
          /\ player'.resourceGainBonus = 100 + 5 * state.restarts]_vars

\* A run restarted after a failure: the player carries the bonus of one
\* restart.
C11_Witness ==
  /\ state.restarts = 1 /\ ~selection /\ ~restartTimer
  /\ player.exists /\ player.resourceGainBonus = 105

\* C12: the saved highestResources is a high-water mark: a save changes it
\* only to resources that exceed it, and no save writes less than an
\* earlier one.
C12_SavedHighWaterMark ==
  [][/\ savedHighest' >= savedHighest
     /\ savedHighest' # savedHighest =>
          (state'.resources > savedHighest /\ savedHighest' = state'.resources)]_vars

\* C13: a countdown callback runs only while the stage's outcome is open;
\* the callback that leaves timer <= 0 stops the countdown and resolves the
\* outcome, and nothing else resolves it: once per loaded stage, wherever
\* the event effects have put the timer.
C13_OutcomeResolvedOnce ==
  [][/\ state'.timer = state.timer - 1 =>
          /\ floodTimerInterval /\ loading = NoLoading
          /\ nextLoad = NoStage /\ ~restartTimer /\ ~completionScreen
     /\ (state'.timer = state.timer - 1 /\ state'.timer <= 0) =>
          /\ ~floodTimerInterval' /\ intervals' = 0
          /\ \/ nextLoad' # NoStage
             \/ completionScreen'
             \/ restartTimer'
     /\ (\/ nextLoad' # NoStage /\ nextLoad = NoStage
         \/ completionScreen' /\ ~completionScreen
         \/ restartTimer' /\ ~restartTimer) =>
          (state'.timer = state.timer - 1 /\ state'.timer <= 0)]_vars

\* The outcome is resolved and the timer, pushed below 0 by an event
\* effect, stays where it is.
C13_Witness ==
  /\ ~floodTimerInterval /\ intervals = 0 /\ state.timer < -1
  /\ nextLoad # NoStage \/ restartTimer \/ completionScreen

\* C14: at most one countdown interval is live; a loadStage call finds no
\* other call awaiting its import and leaves no countdown running, and a
\* countdown starts only when none is live.
C14_OneCountdown ==
  [][/\ intervals' <= 1
     /\ (loading'.stage # NoStage /\ loading' # loading) =>
          (loading.stage = NoStage /\ intervals' = 0)
     /\ intervals' > intervals => intervals = 0]_vars

\* The countdown of a later stage runs alone in a run that was restarted
\* with a new StageManager.
C14_Witness ==
  /\ intervals = 1 /\ floodTimerInterval
  /\ currentStage = "prehistoric" /\ state.restarts > 0

\* C15: while the game is paused no countdown callback decrements the
\* timer (the callbacks are the steps that take exactly 1 from it).
C15_PausedSuspendsCountdown ==
  [][paused => state'.timer # state.timer - 1]_vars

\* C16: a next stage is scheduled only by a success, prehistoric after
\* primordial and ordered after prehistoric; the current stage changes only
\* to that scheduled stage, to primordial at the start of a run, or to none
\* when the systems are set up again; a success in ordered completes the
\* run and schedules nothing; a failure schedules the restart and no stage.
C16_StageOrder ==
  [][/\ (nextLoad' # NoStage /\ nextLoad' # nextLoad) =>
          /\ state.resources >= state.resourceGoal
          /\ \/ currentStage = "primordial" /\ nextLoad' = "prehistoric"
             \/ currentStage = "prehistoric" /\ nextLoad' = "ordered"
     /\ currentStage' # currentStage =>
          \/ currentStage' = NoStage
          \/ currentStage = NoStage /\ currentStage' = "primordial"
          \/ /\ currentStage' = nextLoad
             /\ \/ currentStage = "primordial" /\ currentStage' = "prehistoric"
                \/ currentStage = "prehistoric" /\ currentStage' = "ordered"
     /\ (completionScreen' /\ ~completionScreen) =>
          /\ currentStage = "ordered" /\ state.resources >= state.resourceGoal
          /\ nextLoad' = NoStage /\ loading' = NoLoading /\ ~restartTimer'
     /\ (restartTimer' /\ ~restartTimer) =>
          /\ state.resources < state.resourceGoal
          /\ nextLoad' = NoStage /\ loading' = NoLoading /\ ~completionScreen'
     /\ (restartTimer /\ ~restartTimer') => currentStage' = NoStage]_vars

\* The run is completed in the ordered stage.
C16_Witness ==
  /\ completionScreen /\ currentStage = "ordered" /\ currentScene = "ordered"
  /\ nextLoad = NoStage /\ ~restartTimer

\* C17: a callback that fires after what it was created for has been
\* replaced changes neither Game.state nor the trigger collection: the
\* spawn scheduled after the awakening once the primordial scene is gone,
\* the spawn scheduled by loadStage once another stage is current, the
\* choice handler of a modal opened before the systems were set up again.
C17_StaleCallbacksAreNoOps ==
  [][/\ (AwakenTimerFire /\ currentScene # "primordial") =>
          UNCHANGED <<state, interactiveObjects>>
     /\ \A s \in Stages :
          (SpawnTimerFire(s) /\ currentStage # s) =>
            UNCHANGED <<state, interactiveObjects>>
     /\ \A k \in DOMAIN modals, c \in Choices, rnd \in Rnd,
           influential \in BOOLEAN, compact \in BOOLEAN :
          (modals[k].stale /\ ChoiceClick(k, c, rnd, influential, compact)) =>
            UNCHANGED <<state, interactiveObjects>>]_vars

\* C18: when the scene construction fails, no countdown runs afterwards,
\* the failed stage is not the recorded current stage, and the caller's
\* tail (startGame clearing newGame) does not run.
C18_FailedLoadNotRecorded ==
  [][LoadStageFails =>
       /\ ~floodTimerInterval' /\ intervals' = 0
       /\ currentStage' # loading.stage
       /\ state'.newGame = state.newGame]_vars

\* C19: a performAction whose collaborator throws leaves ActiveEvent and
\* the pause flag consistent: an event is active only with the game paused,
\* and no pool is consumed without it.
C19_ThrowLeavesEventConsistent ==
  [][(\E n \in Positions : ActionThrows(n)) =>
       /\ activeEvent' # NoEvent => paused'
       /\ (\E o \in 1..Len(objects) :
             Len(objects'[o].eventPool) < Len(objects[o].eventPool)) => paused']_vars

\* C20: evolveEntity, getRestartBonuses and loadStage signal an error (a
\* throw, or for loadStage its false) whenever the archetype or the stage
\* they are given is not a defined key; none of them returns a value for
\* such a key.
C20_InvalidKeysSignalError ==
  /\ (/\ call.fn \in {"evolveEntity", "getRestartBonuses"}
      /\ (call.type \notin Types \/ call.stage \notin Stages))
       => call.result.outcome = "throws"
  /\ (call.fn = "loadStage" /\ call.stage \notin Stages)
       => call.result.outcome \in {"throws", "false"}

\* C21: Game.state.resources is a non-negative integer in every reachable
\* state.
C21_ResourcesNonNegative == state.resources \in Nat

\* C22: after any sequence of modifyTrait calls every philosophical trait
\* lies in [0, 2], and a further call keeps it there; adding 0.3 to a trait
\* that is at 2.0 leaves it at 2.0.
C22_TraitsClamped ==
  \A t \in PhilosophicalTraits :
    /\ philosophicalTraits[t] \in 0..TraitCeiling
    /\ \A d \in Deltas :
         ModifyTrait(philosophicalTraits, t, d)[t] \in 0..TraitCeiling
    /\ philosophicalTraits[t] = TraitCeiling
         => ModifyTrait(philosophicalTraits, t, 3)[t] = TraitCeiling

\* Calls have brought one trait to the upper clamp by steps of 0.3 and
\* another to the lower clamp.
C22_Witness ==
  /\ philosophicalTraits.compassion = TraitCeiling
  /\ philosophicalTraits.cooperation = 0
  /\ philosophicalTraits.curiosity = 17

\* C23: restartGame(true) gives every field of Game.state its initial value
\* except highestResources, which it keeps; restartGame(false) clears
\* resources, stage, timer and player and keeps restarts and evolutionType;
\* both then run init in restart mode (new systems, the selection screen,
\* no read of the saved progress).
C23_RestartGameResets ==
  [][/\ CallRestartGame(TRUE) =>
          /\ \A f \in DOMAIN FullInitialState \ {"highestResources"} :
               state'[f] = FullInitialState[f]
          /\ state'.highestResources = state.highestResources
          /\ player' = NoPlayer
     /\ CallRestartGame(FALSE) =>
          /\ state'.resources = 0 /\ state'.stage = "primordial"
          /\ state'.timer = 0 /\ player' = NoPlayer
          /\ state'.restarts = state.restarts
          /\ state'.evolutionType = state.evolutionType
     /\ (\E b \in BOOLEAN : CallRestartGame(b)) =>
          /\ selection' /\ currentStage' = NoStage /\ currentScene' = NoStage
          /\ savedHighest' = savedHighest]_vars

\* restartGame(false) has run on a game with an archetype, a restart count
\* and collected resources.
C23_Witness ==
  /\ selection /\ currentStage = NoStage /\ ~player.exists
  /\ state.resources = 0 /\ state.timer = 0 /\ ~state.newGame
  /\ state.restarts = 1 /\ state.evolutionType = "meek"
  /\ state.highestResources = 2

\* C24: a page load restores the evolutionType, restarts and
\* highestResources of the progress record saveProgress wrote into
\* Game.state, with the stage primordial.
C24_SavedProgressRestored ==
  [][(Startup /\ floodGameProgress.present) =>
        /\ state'.evolutionType = floodGameProgress.evolutionType
        /\ state'.restarts = floodGameProgress.restarts
        /\ state'.highestResources = floodGameProgress.highestResources
        /\ state'.stage = "primordial"]_vars

\* C25: a resource collection by a player that has found the will to live
\* creates triggers exactly when it is the third collection since the
\* current scene was constructed and the collection holds no trigger of the
\* current stage.
C25_TriggersAtThirdCollection ==
  [][(resourcesCollected' = resourcesCollected + 1 /\ player.willToLive) =>
        ((Len(objects') > Len(objects)) <=>
           (/\ resourcesCollected' - collectedAtLoad = 3
            /\ ~HasStageTriggers(interactiveObjects, objects, currentScene)))]_vars

\* C26: the interactable resolved is the first match in the order awakening
\* object (primordial scene, will to live not yet found), event trigger in
\* range, nearest resource in range, environment interactable, village
\* (ordered scene); with a trigger and a resource both in range it is the
\* trigger.
C26_FirstMatchInPriorityOrder ==
  call.fn = "_getInteractable" =>
    LET inRange == {d \in call.resources : d < InteractionRadius}
        r == call.result
    IN IF call.scene = "primordial" /\ ~call.willToLive /\ call.orb
       THEN r.type = "willToLive"
       ELSE IF call.trigger THEN r.type = "eventTrigger"
       ELSE IF inRange # {}
       THEN r.type = "resource" /\ \A d \in inRange : r.target <= d
       ELSE IF call.environment THEN r.type = "environment"
       ELSE IF call.scene = "ordered" /\ call.village THEN r.type = "village"
       ELSE r.type = "none"

\* C27: getChoicesSummary reports the category with the strictly highest
\* count of choices as dominantTrait, and "balanced" when the highest count
\* is shared or every count is zero.
C27_DominantTraitOrBalanced ==
  LET summary == GetChoicesSummary(eventHistory)
      cats == {Categories[k] : k \in 1..Len(Categories)}
      count(cat) ==
        Cardinality({i \in 1..Len(eventHistory) :
           /\ eventHistory[i].choice # 0
           /\ cat \in ChoiceCategories(eventHistory[i].id, eventHistory[i].choice)})
      leaders == {cat \in cats : \A other \in cats : count(cat) >= count(other)}
  IN /\ summary.outcome = "returns"
     /\ IF Cardinality(leaders) = 1
        THEN summary.dominantTrait \in leaders
        ELSE summary.dominantTrait = "balanced"

C29_EvolveEntityPure ==
  call.fn = "evolveEntity" =>
    /\ call.result = EvolveEntity(call.type, call.stage, call.currentTraits)
    /\ call.table = evolutionTypes
    /\ call.argument = call.currentTraits

\* A pending timeout would create triggers past MaxObjects: the run is cut
\* short there.
C30_ObjectsFull ==
  \/ \E s \in spawnTimers :
        Len(CreateInteractiveTriggers(interactiveObjects, objects, s,
                                      currentScene, player).objs) > MaxObjects
  \/ /\ awakenTimer
     /\ Len(CreateInteractiveTriggers(interactiveObjects, objects,
                                      "primordial", currentScene,
                                      player).objs) > MaxObjects

\* C30: a stage whose countdown runs is eventually resolved, as a success
\* (the next stage scheduled or the completion screen shown) or as a failure
\* (the restart scheduled), whatever events, pauses and timer effects come
\* in between.
C30_CountdownResolves ==
  (floodTimerInterval /\ state.restarts < MaxRestarts)
     ~> (nextLoad # NoStage \/ completionScreen \/ restartTimer
           \/ C30_ObjectsFull)

\* C30 witness: the countdown of a stage running in a paused game with an
\* event pending.
C30_Witness ==
  /\ floodTimerInterval /\ state.restarts < MaxRestarts
  /\ paused /\ activeEvent # NoEvent /\ state.timer > 0

\* C31: from the beginning of loadStage to the end of its scene
\* construction the countdown makes no tick and performAction resolves no
\* interaction (no collection, no awakening, no event triggered).
C31_NothingDuringLoad ==
  [][(loading.stage # NoStage /\ loading'.stage # NoStage) =>
        /\ ~(state'.timer = state.timer - 1 /\ eventHistory' = eventHistory)
        /\ resourcesCollected' = resourcesCollected
        /\ player'.willToLive = player.willToLive
        /\ Len(eventHistory') > Len(eventHistory) =>
              eventHistory'[Len(eventHistory')].choice # 0]_vars

\* C32: triggerEventFromObject fires an event (a catalog record enters the
\* history) only when the cooldown set by the last firing or resolution has
\* counted down to zero.
C32_NoEventDuringCooldown ==
  [][(/\ Len(eventHistory') = Len(eventHistory) + 1
      /\ eventHistory'[Len(eventHistory')].choice = 0)
       => eventCooldown <= 0]_vars

\* C38: after resolveEvent has removed a trigger, every run of
\* EventSystem.update completes, so that the frame goes on to the updates of
\* Player, camera and HUD and to the rendering.
C38_UpdateCompletesAfterRemoval ==
  call.fn = "animate" => call.outcome = "returns"

\* C33: while a stage is active (its scene constructed and its countdown
\* running), Game.state.stage is the stage the StageManager loaded.
C33_StateStageIsLoadedStage ==
  (floodTimerInterval /\ currentScene # NoStage /\ loading = NoLoading) =>
     (state.stage = currentStage /\ state.stage = currentScene)

\* C34: the attempt started after a failure (startGame with restarts > 0)
\* begins with the startingResources of the restart bonus when there is
\* one, and with 0 resources otherwise.
C34_RestartBeginsWithBonusOrZero ==
  [][(selection /\ ~selection' /\ state.restarts > 0) =>
        LET bonuses == GetRestartBonuses("strong", state.restarts, state.stage)
        IN state'.resources =
             IF "startingResources" \in DOMAIN bonuses
             THEN bonuses.startingResources ELSE 0]_vars

\* C35: when the startGame of a new evolution (state.newGame, as the
\* constructor and restartGame(true) leave it) has loaded its stage and
\* started the frame loop, the game is not paused.
C35_NewEvolutionRunsUnpaused ==
  [][(/\ loading.stage # NoStage /\ loading.fromStart /\ loading' = NoLoading
      /\ state.newGame /\ ~state'.newGame)
       => ~paused']_vars

\* C37: while the game is paused an action press resolves no interaction:
\* no resource is collected, willToLive is not set and no trigger fires an
\* event from its pool until the game is resumed.
C37_NoInteractionWhilePaused ==
  [][paused =>
        /\ resourcesCollected' <= resourcesCollected
        /\ player'.willToLive => player.willToLive \/ ~player.exists
        /\ \A o \in 1..Len(objects) :
              (o <= Len(objects') /\ objects'[o].hasData /\ objects[o].hasData)
                 => objects'[o].eventPool = objects[o].eventPool]_vars

\* C40: resolving 'Take time to decipher them' of the Ancient Markings event
\* leaves Game.state.timer 12 seconds higher than before: the 20 seconds it
\* promises less the 8 it costs.
C40_DecipherAddsTwelveSeconds ==
  [][eventHistory' = Append(eventHistory,
                            [id |-> "ancient_knowledge", choice |-> 1])
       => state'.timer = state.timer + 12]_vars

\* C39: getChoicesSummary completes on every history that triggers and
\* resolutions produce, and a completion screen that is shown has been built
\* to its end, with its 'Begin New Evolution' button.
C39_SummaryCompletes ==
  /\ GetChoicesSummary(eventHistory).outcome = "returns"
  /\ completionScreen => playAgainBtn

\* C36: the game has at most one frame loop, and a display refresh runs
\* the update phase at most once, however many times the game was restarted.
C36_OneFrameLoop ==
  /\ frameLoops <= 1
  /\ call.fn = "refresh" => call.updates <= 1

====
